---- MODULE Spec2Model ----
(***************************************************************************)
(* A model of src/pg/datastore.rs: the PostgreSQL datastore of the graph   *)
(* database.  PostgresDatastore lends pooled connections; account calls    *)
(* run one statement each in autocommit mode; a PostgresTransaction holds  *)
(* one connection and one backend transaction bound to an account.         *)
(*                                                                         *)
(* The backend is modelled as PostgreSQL behaves at READ COMMITTED: a      *)
(* transaction sees the committed rows plus its own writes, a row written  *)
(* by an open transaction is locked against the others (their statement    *)
(* waits, i.e. the action is not enabled), an error inside a transaction   *)
(* puts it in the failed state in which every later statement is refused,  *)
(* and NOW() is the start time of the current transaction.                 *)
(***************************************************************************)
EXTENDS Integers, Sequences, FiniteSets, TLC

(***************************************************************************)
(* Bounds of the model.                                                    *)
(***************************************************************************)
MaxTime == 2     \* transactions begun in one behaviour (the clock's last tick)
MaxCalls == 2    \* calls made on one transaction, and by one thread
PoolTimeout == 2 \* the pool's connection timeout, in ticks

(***************************************************************************)
(* The values calls are made with.                                         *)
(***************************************************************************)
AccountIds == {1, 2, 3}
VertexIds == {1, 2, 3}
Types == {"person", "place"}
EdgeTypes == {"knows", "likes"}
Weights == {-2, -1, 1, 2}
Offsets == {-1, 0, 1}
Limits == {-1, 0, 1, 2}
MetaKeys == {"k", "l"}
MetaValues == {"x", "y"}
Secrets == {"s1", "s2"}
Salts == {"n1", "n2"}
Emails == {"a@example.com"}
Pepper == "pepper"
None == <<>>
Some(v) == <<v>>
Times == {None, Some(1), Some(2)}
Threads == {1, 2}
\* what num_cpus::get() may return, and the pool sizes new is called with
Cpus == {1, 2, 3, 4, 6, 8, 12, 16, 32, 64, 128, 256, 511, 512, 513, 514,
         1023, 1024, 1025, 4096, 65536, 1073741823}
PoolSizes == {None, Some(1), Some(2), Some(16), Some(1024), Some(2048)}

VARIABLES
    pool_size,   \* the size the pool was built with
    db,          \* the committed rows: <<table, key, value>>
    tx,          \* per pooled connection: who holds it and its transaction
    clock,       \* the backend's clock
    nextVertex,  \* vertex ids issued so far + 1 (Uuid::new_v4 is fresh)
    nextAccount, \* account ids issued so far + 1
    secrets,     \* history: the secret create_account returned with each id
    last,        \* the last call that returned: op, conn, args, res
    threads      \* per calling thread: its call in progress and what it holds

vars == <<pool_size, db, tx, clock, nextVertex, nextAccount, secrets, last, threads>>

Conns == 1 .. pool_size

(***************************************************************************)
(* Results.                                                                *)
(***************************************************************************)
Ok(v) == <<"Ok", v>>
Err(e) == <<"Err", e>>
Unit == "()"
IsOk(r) == r[1] = "Ok"
IsErr(r) == r[1] = "Err"

\* impl From<pg_error::Error> for Error: every backend error that a try!
\* propagates becomes Error::Unexpected
FromPgError == Err("Unexpected")

\* impl From<GetTimeout> for Error
FromGetTimeout == Err("Unexpected")

(***************************************************************************)
(* Rows and keys.                                                          *)
(***************************************************************************)
Key(r) == <<r[1], r[2]>>
Keys(R) == {Key(r) : r \in R}
Table(R, name) == {r \in R : r[1] = name}
Lookup(R, k) == {r \in R : Key(r) = k}

AccountKey(id) == <<"accounts", <<id>>>>
VertexKey(id) == <<"vertices", <<id>>>>
EdgeKey(o, t, i) == <<"edges", <<o, t, i>>>>

\* a vertex row that is given the first type whatever the type asked for
VertexRowOfOneType(id, t, owner) ==
    <<"vertices", <<id>>, [type |-> "person", owner_id |-> owner]>>

\* a vertex row that is given to the first account whoever creates it
VertexRowOfFirstAccount(id, t, owner) ==
    <<"vertices", <<id>>, [type |-> t, owner_id |-> 1]>>

AccountRow(id, email, salt, hash) ==
    <<"accounts", <<id>>, [email |-> email, salt |-> salt, api_secret_hash |-> hash]>>
VertexRow(id, t, owner) == <<"vertices", <<id>>, [type |-> t, owner_id |-> owner]>>
EdgeRow(o, t, i, w, d) == <<"edges", <<o, t, i>>, [weight |-> w, update_date |-> d]>>

\* util::get_salted_hash, an injective digest of its three inputs
get_salted_hash(salt, pepper, secret) == <<salt, pepper, secret>>

(***************************************************************************)
(* A connection of the pool and the transaction on it.  A transaction      *)
(* keeps the committed rows it has superseded (hidden), the rows it has    *)
(* written (rows) and the rows its inserts reference (shares).  A          *)
(* connection lent to auth keeps the call's locals between its queries.    *)
(***************************************************************************)
Idle ==
    [st |-> "idle", acct |-> 0, now |-> 0, failed |-> FALSE, calls |-> 0,
     hidden |-> {}, rows |-> {}, shares |-> {}, auth |-> <<>>]

IsOpen(c) == tx[c].st = "open"

\* a thread that is in no call and holds nothing; gets counts its calls of
\* self.pool.get()
Ready ==
    [pc |-> "ready", op |-> "", arg |-> 0, waited |-> 0, conn |-> 0, trans |-> 0,
     owns |-> <<>>, gets |-> 0]

\* what a statement of the transaction t sees
ViewOf(t) == {r \in db : Key(r) \notin t.hidden} \cup t.rows
View(c) == ViewOf(tx[c])

\* the row locks a transaction holds
Locks(t) == t.hidden \cup Keys(t.rows)
LockedByOther(c, k) == \E d \in Conns \ {c} : IsOpen(d) /\ k \in Locks(tx[d])
SharedByOther(c, k) == \E d \in Conns \ {c} : IsOpen(d) /\ k \in tx[d].shares
\* a statement that writes the rows with keys K waits while another open
\* transaction holds one of them
WaitsToWrite(c, K) == \E k \in K : LockedByOther(c, k)
\* a statement that deletes the rows with keys K also waits for the
\* transactions whose inserts reference them
WaitsToDelete(c, K) == \E k \in K : LockedByOther(c, k) \/ SharedByOther(c, k)

\* the transaction after a statement that removed the rows with keys gone,
\* inserted the rows added and referenced (foreign keys) the rows with keys refs
Write(t, gone, added, refs) ==
    [t EXCEPT !.hidden = @ \cup gone,
              !.rows = {r \in @ : Key(r) \notin gone} \cup added,
              !.shares = @ \cup refs]

\* a statement that raised an error: the backend transaction is now failed
Failed(t) == [t EXCEPT !.failed = TRUE]

\* the bookkeeping of one call on the transaction of connection c
Returns(c, op, args, res, t) ==
    /\ tx' = [tx EXCEPT ![c] = [t EXCEPT !.calls = @ + 1]]
    /\ last' = [op |-> op, conn |-> c, args |-> args, res |-> res]
    /\ UNCHANGED threads

CanCall(c) == IsOpen(c) /\ tx[c].calls < MaxCalls

(***************************************************************************)
(* Init.  PostgresDatastore::new builds the pool and connects it to a      *)
(* database, which holds what earlier runs left there: two accounts (Init, *)
(* and InitAccounts with a pool of two), also a vertex of each account     *)
(* (InitVertices), also an edge each way between the two and a global      *)
(* metadata record (InitGraph).                                            *)
(***************************************************************************)
TwoAccounts ==
    {AccountRow(1, "a@example.com", "n1", get_salted_hash("n1", Pepper, "s1")),
     AccountRow(2, "a@example.com", "n2", get_salted_hash("n2", Pepper, "s2"))}
TwoVertices == {VertexRow(1, "person", 1), VertexRow(2, "place", 2)}

\* the datastore with a pool of n connections on a database that holds the
\* rows given, of which v are vertices and a are accounts
InitOn(n, rows, v, a, s) ==
    /\ pool_size = n
    /\ db = rows
    /\ tx = [c \in 1 .. n |-> Idle]
    /\ clock = 0
    /\ nextVertex = v + 1
    /\ nextAccount = a + 1
    /\ secrets = s
    /\ last = [op |-> "new", conn |-> 0, args |-> <<>>, res |-> Ok(Unit)]
    /\ threads = [p \in Threads |-> Ready]

TwoSecrets == (1 :> "s1") @@ (2 :> "s2")

InitAccounts == InitOn(2, TwoAccounts, 0, 2, TwoSecrets)
Init == InitOn(1, TwoAccounts, 0, 2, TwoSecrets)
InitVertices == InitOn(1, TwoAccounts \cup TwoVertices, 2, 2, TwoSecrets)
InitGraph ==
    InitOn(1, TwoAccounts \cup TwoVertices
              \cup {EdgeRow(1, "knows", 2, 1, 0), EdgeRow(2, "knows", 1, 1, 0),
                    <<"global_metadata", <<"l">>, "x">>},
           2, 2, TwoSecrets)

(***************************************************************************)
(* PostgresDatastore::new.  The pool size is a u32 and num_cpus::get() a   *)
(* usize.  The numbers of this model are below 2^31, so that "cpus as u32" *)
(* is the number itself, and a product of two u32 stays a u32 when it is   *)
(* below 2^32, that is when the first factor is below 2^32 / the second.   *)
(***************************************************************************)
\* cpus as u32
AsU32(cpus) == cpus

\* a * b in u32, which neither panics nor wraps for the a this is used with:
\* a product that does is any u32 at all
MulU32(a, b) == IF a <= 2147483647 \div b THEN {a * b} ELSE 0 .. 2147483647

\* the match without its ceiling
PoolSizeWithoutCeiling(pool_size_arg, cpus) ==
    IF pool_size_arg # None THEN {pool_size_arg[1]} ELSE MulU32(AsU32(cpus), 2)

\* let unwrapped_pool_size: u32 = match pool_size { ... }: the values it may take
unwrapped_pool_size(pool_size_arg, cpus) ==
    IF pool_size_arg # None THEN {pool_size_arg[1]}
    ELSE IF cpus > 512 THEN {1024} ELSE MulU32(AsU32(cpus), 2)

\* the process before it calls new(pool_size_arg, ..) on a host of cpus units
InitNew ==
    /\ pool_size = 0
    /\ db = {}
    /\ tx = [c \in {} |-> Idle]
    /\ clock = 0
    /\ nextVertex = 1
    /\ nextAccount = 1
    /\ secrets = [id \in {} |-> ""]
    /\ \E pool_size_arg \in PoolSizes, cpus \in Cpus :
          last = [op |-> "main", conn |-> 0, args |-> <<pool_size_arg, cpus>>,
                  res |-> Ok(Unit)]
    /\ threads = [p \in Threads |-> Ready]

new ==
    /\ last.op = "main"
    /\ pool_size' \in unwrapped_pool_size(last.args[1], last.args[2])
    /\ tx' = [c \in 1 .. pool_size' |-> Idle]
    /\ last' = [last EXCEPT !.op = "new"]
    /\ UNCHANGED <<db, clock, nextVertex, nextAccount, secrets, threads>>

(***************************************************************************)
(* PostgresDatastore::transaction and PostgresTransaction::new.            *)
(***************************************************************************)
\* PostgresTransaction::new on a connection: BEGIN, bound to the account
PostgresTransactionNew(account_id) ==
    [Idle EXCEPT !.st = "open", !.acct = account_id, !.now = clock + 1]

transaction(c, account_id) ==
    /\ tx[c].st = "idle"
    /\ clock < MaxTime
    /\ clock' = clock + 1
    /\ tx' = [tx EXCEPT ![c] = PostgresTransactionNew(account_id)]
    /\ last' = [op |-> "transaction", conn |-> c, args |-> <<account_id>>, res |-> Ok(Unit)]
    /\ UNCHANGED <<pool_size, db, nextVertex, nextAccount, secrets, threads>>

(***************************************************************************)
(* Vertices.                                                               *)
(***************************************************************************)
get_vertex(c, id) ==
    /\ CanCall(c)
    /\ LET results == Lookup(View(c), VertexKey(id))
           res == IF tx[c].failed THEN FromPgError
                  ELSE IF results # {}
                       THEN Ok([id |-> id, t |-> (CHOOSE r \in results : TRUE)[3].type])
                       ELSE Err("VertexDoesNotExist")
       IN  Returns(c, "get_vertex", <<id>>, res, tx[c])
    /\ UNCHANGED <<pool_size, db, clock, nextVertex, nextAccount, secrets>>

create_vertex(c, t) ==
    /\ CanCall(c)
    /\ nextVertex \in VertexIds
    /\ LET id == nextVertex
           owner == AccountKey(tx[c].acct)
       IN  IF tx[c].failed
           THEN /\ Returns(c, "create_vertex", <<t>>, FromPgError, tx[c])
                /\ UNCHANGED nextVertex
           ELSE IF Lookup(View(c), owner) = {}
           THEN \* vertices.owner_id references accounts(id)
                /\ Returns(c, "create_vertex", <<t>>, FromPgError, Failed(tx[c]))
                /\ UNCHANGED nextVertex
           ELSE /\ Returns(c, "create_vertex", <<t>>, Ok(id),
                           Write(tx[c], {}, {VertexRow(id, t, tx[c].acct)}, {owner}))
                /\ nextVertex' = nextVertex + 1
    /\ UNCHANGED <<pool_size, db, clock, nextAccount, secrets>>

\* the same selection without "AND owner_id=$2"
AnyVertex(V, id, account_id) == Lookup(V, VertexKey(id))

\* the rows "WHERE id=$1 AND owner_id=$2" selects in the view V
OwnedVertex(V, id, account_id) ==
    {r \in Lookup(V, VertexKey(id)) : r[3].owner_id = account_id}

set_vertex(c, id, t) ==
    /\ CanCall(c)
    /\ tx[c].failed \/ ~WaitsToWrite(c, {VertexKey(id)})
    /\ LET results == OwnedVertex(View(c), id, tx[c].acct)
       IN  IF tx[c].failed
           THEN Returns(c, "set_vertex", <<id, t>>, FromPgError, tx[c])
           ELSE IF results # {}
           THEN Returns(c, "set_vertex", <<id, t>>, Ok(Unit),
                        Write(tx[c], {VertexKey(id)},
                              {VertexRow(id, t, r[3].owner_id) : r \in results}, {}))
           ELSE Returns(c, "set_vertex", <<id, t>>, Err("VertexDoesNotExist"), tx[c])
    /\ UNCHANGED <<pool_size, db, clock, nextVertex, nextAccount, secrets>>

\* the rows that go with a vertex (ON DELETE CASCADE): its edges in both
\* directions, its metadata and the metadata of those edges
CascadeVertex(V, id) ==
    LET edges == {r \in Table(V, "edges") : r[2][1] = id \/ r[2][3] = id}
    IN  {VertexKey(id)} \cup Keys(edges)
        \cup Keys({r \in Table(V, "vertex_metadata") : r[2][1] = id})
        \cup Keys({r \in Table(V, "edge_metadata") :
                     \E e \in edges : e[2] = <<r[2][1], r[2][2], r[2][3]>>})

delete_vertex(c, id) ==
    /\ CanCall(c)
    /\ LET V == View(c)
           results == OwnedVertex(V, id, tx[c].acct)
           gone == IF results = {} THEN {} ELSE CascadeVertex(V, id)
       IN  /\ tx[c].failed
              \/ (~WaitsToWrite(c, {VertexKey(id)}) /\ ~WaitsToDelete(c, gone))
           /\ IF tx[c].failed
              THEN Returns(c, "delete_vertex", <<id>>, FromPgError, tx[c])
              ELSE IF results # {}
              THEN Returns(c, "delete_vertex", <<id>>, Ok(Unit), Write(tx[c], gone, {}, {}))
              ELSE Returns(c, "delete_vertex", <<id>>, Err("VertexDoesNotExist"), tx[c])
    /\ UNCHANGED <<pool_size, db, clock, nextVertex, nextAccount, secrets>>

(***************************************************************************)
(* Edges.                                                                  *)
(***************************************************************************)
\* models::Edge::new
Edge(o, t, i, w) == [outbound_id |-> o, t |-> t, inbound_id |-> i, weight |-> w]

get_edge(c, o, t, i) ==
    /\ CanCall(c)
    /\ LET results == Lookup(View(c), EdgeKey(o, t, i))
           res == IF tx[c].failed THEN FromPgError
                  ELSE IF results # {}
                       THEN Ok(Edge(o, t, i, (CHOOSE r \in results : TRUE)[3].weight))
                       ELSE Err("EdgeDoesNotExist")
       IN  Returns(c, "get_edge", <<o, t, i>>, res, tx[c])
    /\ UNCHANGED <<pool_size, db, clock, nextVertex, nextAccount, secrets>>

\* a savepoint whose ROLLBACK TO is lost: the state reached stays
RollbackToNothing(saved, t) == t

\* postgres::Transaction::savepoint: a nested transaction; dropped with its
\* flag unset it sends ROLLBACK TO, which restores the state at the
\* savepoint, and with its flag set RELEASE, which keeps the state reached
RollbackTo(saved, t) == saved
Release(saved, t) == t

\* an upsert that inserts row without replacing the row with the key k
OnConflictInsert(t, k, row) == Write(t, {}, {row}, {})

\* ON CONFLICT ON CONSTRAINT edges_outbound_id_type_inbound_id_ukey DO UPDATE:
\* the row with the key k is replaced by row
OnConflictDoUpdate(t, k, row) == Write(t, {k}, {row}, {})

\* the INSERT ... ON CONFLICT DO UPDATE of set_edge in the transaction t: the
\* SqlState it ends with and the transaction after it
EdgeUpsert(t, e) ==
    LET V == ViewOf(t)
        k == EdgeKey(e.outbound_id, e.t, e.inbound_id)
        \* (SELECT id FROM vertices WHERE id=$2 AND owner_id=$3)
        outbound == OwnedVertex(V, e.outbound_id, t.acct)
        row == EdgeRow(e.outbound_id, e.t, e.inbound_id, e.weight, t.now)
    IN  IF outbound = {}
        THEN [code |-> "NotNullViolation", tx |-> Failed(t)]
        ELSE IF Lookup(V, k) # {}
        THEN [code |-> "Ok", tx |-> OnConflictDoUpdate(t, k, row)]
        ELSE IF Lookup(V, VertexKey(e.inbound_id)) = {}
        THEN [code |-> "ForeignKeyViolation", tx |-> Failed(t)]
        ELSE [code |-> "Ok",
              tx |-> Write(t, {}, {row},
                           {VertexKey(e.outbound_id), VertexKey(e.inbound_id)})]

\* the match on the query's result in set_edge
SetEdgeReturnable(code) ==
    CASE code = "Ok" -> Ok(Unit)
      [] code = "NotNullViolation" -> Err("VertexDoesNotExist")
      [] code = "ForeignKeyViolation" -> Err("VertexDoesNotExist")
      [] OTHER -> Err("Unexpected")

\* the rows the upsert of e locks or takes as foreign-key targets
EdgeUpsertNeeds(t, e) ==
    IF OwnedVertex(ViewOf(t), e.outbound_id, t.acct) = {} THEN {}
    ELSE {EdgeKey(e.outbound_id, e.t, e.inbound_id)}
         \cup {k \in {VertexKey(e.outbound_id), VertexKey(e.inbound_id)} :
                 Lookup(db, k) # {}}

\* the same test without its upper limit
WeightBelowRange(weight) == weight < -1

\* if edge.weight < -1.0 || edge.weight > 1.0
WeightOutOfRange(weight) == weight < -1 \/ weight > 1

set_edge(c, e) ==
    /\ CanCall(c)
    /\ IF WeightOutOfRange(e.weight)
       THEN Returns(c, "set_edge", <<e>>, Err("WeightOutOfRange"), tx[c])
       ELSE IF tx[c].failed
       THEN \* try!(self.trans.savepoint("set_edge"))
            Returns(c, "set_edge", <<e>>, FromPgError, tx[c])
       ELSE /\ ~WaitsToWrite(c, EdgeUpsertNeeds(tx[c], e))
            /\ LET saved == tx[c]
                   results == EdgeUpsert(saved, e)
                   returnable == SetEdgeReturnable(results.code)
               IN  Returns(c, "set_edge", <<e>>, returnable,
                           IF IsErr(returnable)
                           THEN RollbackTo(saved, results.tx)
                           ELSE Release(saved, results.tx))
    /\ UNCHANGED <<pool_size, db, clock, nextVertex, nextAccount, secrets>>

\* the rows that go with an edge (ON DELETE CASCADE): its metadata
CascadeEdge(V, k) ==
    {k} \cup Keys({r \in Table(V, "edge_metadata") :
                     k[2] = <<r[2][1], r[2][2], r[2][3]>>})

delete_edge(c, o, t, i) ==
    /\ CanCall(c)
    /\ LET V == View(c)
           outbound == OwnedVertex(V, o, tx[c].acct)
           results == IF outbound = {} THEN {} ELSE Lookup(V, EdgeKey(o, t, i))
           gone == IF results = {} THEN {} ELSE CascadeEdge(V, EdgeKey(o, t, i))
       IN  /\ tx[c].failed \/ ~WaitsToDelete(c, gone)
           /\ IF tx[c].failed
              THEN Returns(c, "delete_edge", <<o, t, i>>, FromPgError, tx[c])
              ELSE IF results # {}
              THEN Returns(c, "delete_edge", <<o, t, i>>, Ok(Unit), Write(tx[c], gone, {}, {}))
              ELSE Returns(c, "delete_edge", <<o, t, i>>, Err("EdgeDoesNotExist"), tx[c])
    /\ UNCHANGED <<pool_size, db, clock, nextVertex, nextAccount, secrets>>

\* the rows "WHERE outbound_id=$1 AND type=$2" selects in the view V
EdgesFrom(V, o, t) == {r \in Table(V, "edges") : r[2][1] = o /\ r[2][2] = t}

get_edge_count(c, o, t) ==
    /\ CanCall(c)
    /\ LET res == IF tx[c].failed THEN FromPgError
                  ELSE Ok(Cardinality(EdgesFrom(View(c), o, t)))
       IN  Returns(c, "get_edge_count", <<o, t>>, res, tx[c])
    /\ UNCHANGED <<pool_size, db, clock, nextVertex, nextAccount, secrets>>

\* every order in which ORDER BY update_date DESC may deliver the rows R
\* (rows of one date come in any order)
RECURSIVE Orderings(_)
Orderings(R) ==
    IF R = {} THEN {<<>>}
    ELSE UNION {{<<r>> \o s : s \in Orderings(R \ {r})} :
                r \in {x \in R : \A y \in R : y[3].update_date <= x[3].update_date}}

\* OFFSET offset LIMIT limit
OffsetLimit(s, offset, limit) ==
    SubSeq(s, offset + 1, IF offset + limit < Len(s) THEN offset + limit ELSE Len(s))

fill_edges(results, outbound_id, t) ==
    [n \in 1 .. Len(results) |->
        Edge(outbound_id, t, results[n][2][3], results[n][3].weight)]

get_edge_range(c, o, t, offset, limit) ==
    /\ CanCall(c)
    /\ IF offset < 0
       THEN Returns(c, "get_edge_range", <<o, t, offset, limit>>, Err("OffsetOutOfRange"), tx[c])
       ELSE IF limit < 0
       THEN Returns(c, "get_edge_range", <<o, t, offset, limit>>, Err("LimitOutOfRange"), tx[c])
       ELSE IF tx[c].failed
       THEN Returns(c, "get_edge_range", <<o, t, offset, limit>>, FromPgError, tx[c])
       ELSE \E s \in Orderings(EdgesFrom(View(c), o, t)) :
                Returns(c, "get_edge_range", <<o, t, offset, limit>>,
                        Ok(fill_edges(OffsetLimit(s, offset, limit), o, t)), tx[c])
    /\ UNCHANGED <<pool_size, db, clock, nextVertex, nextAccount, secrets>>

\* a WHERE clause that leaves the lower bound out in every variant
InTimeRangeHighOnly(r, high, low) == high # None => r[3].update_date <= high[1]

\* the WHERE clause of the variant of the query that (high, low) selects
InTimeRange(r, high, low) ==
    /\ high # None => r[3].update_date <= high[1]
    /\ low # None => r[3].update_date >= low[1]

get_edge_time_range(c, o, t, high, low, limit) ==
    /\ CanCall(c)
    /\ IF limit < 0
       THEN Returns(c, "get_edge_time_range", <<o, t, high, low, limit>>, Err("LimitOutOfRange"), tx[c])
       ELSE IF tx[c].failed
       THEN Returns(c, "get_edge_time_range", <<o, t, high, low, limit>>, FromPgError, tx[c])
       ELSE \E s \in Orderings({r \in EdgesFrom(View(c), o, t) :
                                  InTimeRange(r, high, low)}) :
                Returns(c, "get_edge_time_range", <<o, t, high, low, limit>>,
                        Ok(fill_edges(OffsetLimit(s, 0, limit), o, t)), tx[c])
    /\ UNCHANGED <<pool_size, db, clock, nextVertex, nextAccount, secrets>>

(***************************************************************************)
(* Metadata: four tables, global_metadata keyed by <<key>>, account_ and   *)
(* vertex_metadata by <<owner_id, key>>, edge_metadata by the edge's       *)
(* <<outbound_id, type, inbound_id>> (which stands for the edge's id: the  *)
(* unique key names one edge row) and the key.                             *)
(***************************************************************************)
GlobalMetaKey(key) == <<"global_metadata", <<key>>>>
AccountMetaKey(owner_id, key) == <<"account_metadata", <<owner_id, key>>>>
VertexMetaKey(owner_id, key) == <<"vertex_metadata", <<owner_id, key>>>>
EdgeMetaKey(o, t, i, key) == <<"edge_metadata", <<o, t, i, key>>>>
MetaRow(k, value) == <<k[1], k[2], value>>

handle_get_metadata_results(results) ==
    IF results # {} THEN Ok((CHOOSE r \in results : TRUE)[3])
    ELSE Err("MetadataDoesNotExist")

\* a handler that takes an empty result for a success
handle_any_results(results) == Ok(Unit)

handle_update_metadata_results(results) ==
    IF results # {} THEN Ok(Unit) ELSE Err("MetadataDoesNotExist")

\* the rows the owner_id of a metadata row with key k must reference
MetadataOwner(k) ==
    CASE k[1] = "account_metadata" -> {AccountKey(k[2][1])}
      [] k[1] = "vertex_metadata" -> {VertexKey(k[2][1])}
      [] k[1] = "edge_metadata" -> {EdgeKey(k[2][1], k[2][2], k[2][3])}
      [] OTHER -> {}

\* (SELECT id FROM edges WHERE outbound_id=$1 AND type=$2 AND inbound_id=$3)
\* yields NULL when no edge matches
OwnerIsNull(V, k) ==
    k[1] = "edge_metadata" /\ Lookup(V, EdgeKey(k[2][1], k[2][2], k[2][3])) = {}

\* SELECT value FROM <table> WHERE owner_id=... AND key=...
MetadataSelect(V, k) == IF OwnerIsNull(V, k) THEN {} ELSE Lookup(V, k)

\* INSERT ... ON CONFLICT ON CONSTRAINT <table>_pkey DO UPDATE SET value
\* RETURNING 1, in the transaction t: the SqlState, the transaction after it
\* and the rows returned
MetadataUpsert(t, k, value) ==
    LET V == ViewOf(t)
    IN  IF OwnerIsNull(V, k)
        THEN [code |-> "NotNullViolation", tx |-> Failed(t), results |-> {}]
        ELSE IF Lookup(V, k) # {}
        THEN [code |-> "Ok", tx |-> Write(t, {k}, {MetaRow(k, value)}, {}),
              results |-> {1}]
        ELSE IF \E r \in MetadataOwner(k) : Lookup(V, r) = {}
        THEN [code |-> "ForeignKeyViolation", tx |-> Failed(t), results |-> {}]
        ELSE [code |-> "Ok", tx |-> Write(t, {}, {MetaRow(k, value)}, MetadataOwner(k)),
              results |-> {1}]

get_metadata(c, op, k) ==
    /\ CanCall(c)
    /\ LET res == IF tx[c].failed THEN FromPgError
                  ELSE handle_get_metadata_results(MetadataSelect(View(c), k))
       IN  Returns(c, op, <<k>>, res, tx[c])
    /\ UNCHANGED <<pool_size, db, clock, nextVertex, nextAccount, secrets>>

set_metadata(c, op, k, value) ==
    /\ CanCall(c)
    /\ \/ tx[c].failed
       \/ OwnerIsNull(View(c), k)
       \/ ~WaitsToWrite(c, {k} \cup {r \in MetadataOwner(k) : Lookup(db, r) # {}})
    /\ IF tx[c].failed
       THEN Returns(c, op, <<k, value>>, FromPgError, tx[c])
       ELSE LET u == MetadataUpsert(tx[c], k, value)
            IN  IF u.code # "Ok"
                THEN Returns(c, op, <<k, value>>, FromPgError, u.tx)
                ELSE Returns(c, op, <<k, value>>, handle_update_metadata_results(u.results), u.tx)
    /\ UNCHANGED <<pool_size, db, clock, nextVertex, nextAccount, secrets>>

delete_metadata(c, op, k) ==
    /\ CanCall(c)
    /\ LET results == MetadataSelect(View(c), k)
       IN  /\ tx[c].failed \/ ~WaitsToWrite(c, Keys(results))
           /\ IF tx[c].failed
              THEN Returns(c, op, <<k>>, FromPgError, tx[c])
              ELSE Returns(c, op, <<k>>, handle_update_metadata_results(results),
                           Write(tx[c], Keys(results), {}, {}))
    /\ UNCHANGED <<pool_size, db, clock, nextVertex, nextAccount, secrets>>

get_global_metadata(c, key) == get_metadata(c, "get_global_metadata", GlobalMetaKey(key))
set_global_metadata(c, key, value) ==
    set_metadata(c, "set_global_metadata", GlobalMetaKey(key), value)
delete_global_metadata(c, key) ==
    delete_metadata(c, "delete_global_metadata", GlobalMetaKey(key))

get_account_metadata(c, owner_id, key) ==
    get_metadata(c, "get_account_metadata", AccountMetaKey(owner_id, key))
set_account_metadata(c, owner_id, key, value) ==
    set_metadata(c, "set_account_metadata", AccountMetaKey(owner_id, key), value)
delete_account_metadata(c, owner_id, key) ==
    delete_metadata(c, "delete_account_metadata", AccountMetaKey(owner_id, key))

get_vertex_metadata(c, owner_id, key) ==
    get_metadata(c, "get_vertex_metadata", VertexMetaKey(owner_id, key))
set_vertex_metadata(c, owner_id, key, value) ==
    set_metadata(c, "set_vertex_metadata", VertexMetaKey(owner_id, key), value)
delete_vertex_metadata(c, owner_id, key) ==
    delete_metadata(c, "delete_vertex_metadata", VertexMetaKey(owner_id, key))

get_edge_metadata(c, o, t, i, key) ==
    get_metadata(c, "get_edge_metadata", EdgeMetaKey(o, t, i, key))
set_edge_metadata(c, o, t, i, key, value) ==
    set_metadata(c, "set_edge_metadata", EdgeMetaKey(o, t, i, key), value)
delete_edge_metadata(c, o, t, i, key) ==
    delete_metadata(c, "delete_edge_metadata", EdgeMetaKey(o, t, i, key))

(***************************************************************************)
(* The account calls of PostgresDatastore.  Each takes a connection from   *)
(* the pool and runs its statements in autocommit mode.                    *)
(***************************************************************************)
\* a pool that lends a connection whoever holds it
PoolGetAny(c) == TRUE

\* self.pool.get() lends a connection no one holds
PoolGet(c) == tx[c].st = "idle"

\* has_account from its query to its return
HasAccountQuery(c, account_id) ==
    LET results == Lookup(db, AccountKey(account_id))
    IN  last' = [op |-> "has_account", conn |-> c, args |-> <<account_id>>, res |-> Ok(results # {})]

has_account(c, account_id) ==
    /\ PoolGet(c)
    /\ HasAccountQuery(c, account_id)
    /\ UNCHANGED <<pool_size, db, tx, clock, nextVertex, nextAccount, secrets, threads>>

create_account(c, email) ==
    /\ PoolGet(c)
    /\ nextAccount \in AccountIds
    /\ \E salt \in Salts, secret \in Secrets :
          LET id == nextAccount
              hash == get_salted_hash(salt, Pepper, secret)
          IN  /\ db' = db \cup {AccountRow(id, email, salt, hash)}
              /\ secrets' = (id :> secret) @@ secrets
              /\ last' = [op |-> "create_account", conn |-> c, args |-> <<email>>,
                          res |-> Ok(<<id, secret>>)]
    /\ nextAccount' = nextAccount + 1
    /\ UNCHANGED <<pool_size, tx, clock, nextVertex, threads>>

\* the rows that go with an account (ON DELETE CASCADE): its metadata and
\* its vertices with all that goes with them
CascadeAccount(V, id) ==
    {AccountKey(id)}
    \cup Keys({r \in Table(V, "account_metadata") : r[2][1] = id})
    \cup UNION {CascadeVertex(V, r[2][1]) :
                  r \in {x \in Table(V, "vertices") : x[3].owner_id = id}}

\* a return that takes no row for a success
DeleteAccountAlwaysOk(results) == Ok(Unit)

\* for _ in &results { return Result::Ok(()); } Err(Error::AccountNotFound)
DeleteAccountReturn(results) ==
    IF results # {} THEN Ok(Unit) ELSE Err("AccountNotFound")

\* delete_account from its query to its return
DeleteAccountQuery(c, account_id) ==
    LET results == Lookup(db, AccountKey(account_id))
        gone == IF results = {} THEN {} ELSE CascadeAccount(db, account_id)
    IN  /\ ~WaitsToDelete(c, gone)
        /\ db' = {r \in db : Key(r) \notin gone}
        /\ last' = [op |-> "delete_account", conn |-> c, args |-> <<account_id>>,
                    res |-> DeleteAccountReturn(results)]

delete_account(c, account_id) ==
    /\ PoolGet(c)
    /\ DeleteAccountQuery(c, account_id)
    /\ UNCHANGED <<pool_size, tx, clock, nextVertex, nextAccount, secrets, threads>>

\* the same selection without "AND api_secret_hash=$2"
AccountWithId(V, account_id, expected_hash) == Lookup(V, AccountKey(account_id))

\* SELECT 1 FROM accounts WHERE id=$1 AND api_secret_hash=$2
AccountWithHash(V, account_id, expected_hash) ==
    {r \in Lookup(V, AccountKey(account_id)) : r[3].api_secret_hash = expected_hash}

\* auth up to its first query: without a row it returns, with one it goes on
\* to the second query, holding the connection
auth(c, account_id, secret) ==
    /\ PoolGet(c)
    /\ LET get_salt_results == Lookup(db, AccountKey(account_id))
       IN  IF get_salt_results = {}
           THEN /\ last' = [op |-> "auth", conn |-> c, args |-> <<account_id, secret>>,
                            res |-> Ok(FALSE)]
                /\ UNCHANGED tx
           ELSE /\ \E row \in get_salt_results :
                      tx' = [tx EXCEPT ![c] =
                               [Idle EXCEPT !.st = "auth",
                                            !.auth = <<account_id, secret, row[3].salt>>]]
                /\ UNCHANGED last
    /\ UNCHANGED <<pool_size, db, clock, nextVertex, nextAccount, secrets, threads>>

\* auth from its second query to its return
auth_results(c) ==
    /\ tx[c].st = "auth"
    /\ LET account_id == tx[c].auth[1]
           secret == tx[c].auth[2]
           salt == tx[c].auth[3]
           expected_hash == get_salted_hash(salt, Pepper, secret)
           results == AccountWithHash(db, account_id, expected_hash)
       IN  last' = [op |-> "auth", conn |-> c, args |-> <<account_id, secret>>,
                    res |-> Ok(results # {})]
    /\ tx' = [tx EXCEPT ![c] = Idle]
    /\ UNCHANGED <<pool_size, db, clock, nextVertex, nextAccount, secrets, threads>>

(***************************************************************************)
(* commit, rollback and drop.  postgres::Transaction keeps a commit flag,  *)
(* false at first; finish() sends COMMIT when it is set and ROLLBACK when  *)
(* it is not, and Transaction::commit() is set_commit() then finish().     *)
(***************************************************************************)
set_commit(flag) == TRUE
set_rollback(flag) == FALSE

\* the committed rows after the transaction t ends with the given flag; a
\* COMMIT of a failed transaction is a ROLLBACK
finish(t, flag) == IF flag /\ ~t.failed THEN ViewOf(t) ELSE db

\* postgres::Transaction::commit
trans_commit(t, flag) == finish(t, set_commit(flag))

commit(c) ==
    /\ IsOpen(c)
    /\ db' = trans_commit(tx[c], set_commit(FALSE))
    /\ tx' = [tx EXCEPT ![c] = Idle]
    /\ last' = [op |-> "commit", conn |-> c, args |-> <<>>, res |-> Ok(Unit)]
    /\ UNCHANGED <<pool_size, clock, nextVertex, nextAccount, secrets, threads>>

rollback(c) ==
    /\ IsOpen(c)
    /\ db' = trans_commit(tx[c], set_rollback(FALSE))
    /\ tx' = [tx EXCEPT ![c] = Idle]
    /\ last' = [op |-> "rollback", conn |-> c, args |-> <<>>, res |-> Ok(Unit)]
    /\ UNCHANGED <<pool_size, clock, nextVertex, nextAccount, secrets, threads>>

\* a PostgresTransaction dropped without commit() or rollback(): the fields
\* drop in declaration order, trans (flag unset: ROLLBACK) before conn
drop(c) ==
    /\ IsOpen(c)
    /\ db' = finish(tx[c], FALSE)
    /\ tx' = [tx EXCEPT ![c] = Idle]
    /\ last' = [op |-> "drop", conn |-> c, args |-> <<>>, res |-> Ok(Unit)]
    /\ UNCHANGED <<pool_size, clock, nextVertex, nextAccount, secrets, threads>>

(***************************************************************************)
(* The pool, thread by thread.  A thread calls self.pool.get() and waits   *)
(* until the pool lends it a connection or the connection timeout passes;  *)
(* with a connection it runs an account call and lets the connection go,   *)
(* or builds a PostgresTransaction, which owns the connection until the    *)
(* thread commits it, rolls it back or drops it.  The value is taken apart *)
(* field by field: commit() and rollback() consume trans and leave the     *)
(* rest to be dropped when they return, and a dropped value drops its      *)
(* fields in the order of their declaration.                               *)
(***************************************************************************)
\* a value whose conn is never dropped
FieldsWithoutConn == <<"trans">>

\* the fields declared with conn before trans
FieldsConnFirst == <<"conn", "trans">>

\* struct PostgresTransaction: its fields that have a destructor, in the
\* order of their declaration
Fields == <<"trans", "conn">>

NoneIdle == \A c \in Conns : ~PoolGet(c)

\* the calls of transaction() that have not begun their transaction yet
Pending == {q \in Threads : threads[q].pc \in {"waiting", "got"} /\ threads[q].op = "transaction"}

\* a thread calls op(arg), which begins with self.pool.get()
pool_get(p, op, arg) ==
    /\ threads[p].pc = "ready"
    /\ threads[p].gets < MaxCalls
    /\ op = "transaction" => clock + Cardinality(Pending) < MaxTime
    /\ threads' = [threads EXCEPT ![p] =
                     [@ EXCEPT !.pc = "waiting", !.op = op, !.arg = arg,
                               !.waited = 0, !.gets = @ + 1]]
    /\ UNCHANGED <<pool_size, db, tx, clock, nextVertex, nextAccount, secrets, last>>

\* the pool lends the thread the connection c
pool_lend(p, c) ==
    /\ threads[p].pc = "waiting"
    /\ PoolGet(c)
    /\ tx' = [tx EXCEPT ![c] = [Idle EXCEPT !.st = "lent"]]
    /\ threads' = [threads EXCEPT ![p] = [@ EXCEPT !.pc = "got", !.conn = c]]
    /\ UNCHANGED <<pool_size, db, clock, nextVertex, nextAccount, secrets, last>>

\* time passes for a thread that waits with every connection lent
pool_tick(p) ==
    /\ threads[p].pc = "waiting"
    /\ NoneIdle
    /\ threads[p].waited < PoolTimeout
    /\ threads' = [threads EXCEPT ![p] = [@ EXCEPT !.waited = @ + 1]]
    /\ UNCHANGED <<pool_size, db, tx, clock, nextVertex, nextAccount, secrets, last>>

\* try!(self.pool.get()) after the timeout: the call returns the error
get_timeout(p) ==
    /\ threads[p].pc = "waiting"
    /\ NoneIdle
    /\ threads[p].waited = PoolTimeout
    /\ last' = [op |-> threads[p].op, conn |-> 0, args |-> <<threads[p].arg>>,
                res |-> FromGetTimeout]
    /\ threads' = [threads EXCEPT ![p] = [Ready EXCEPT !.gets = threads[p].gets]]
    /\ UNCHANGED <<pool_size, db, tx, clock, nextVertex, nextAccount, secrets>>

\* transaction() with its connection: PostgresTransaction::new
new_transaction(p) ==
    /\ threads[p].pc = "got"
    /\ threads[p].op = "transaction"
    /\ LET c == threads[p].conn
       IN  /\ tx' = [tx EXCEPT ![c] = PostgresTransactionNew(threads[p].arg)]
           /\ last' = [op |-> "transaction", conn |-> c, args |-> <<threads[p].arg>>,
                       res |-> Ok(Unit)]
           /\ threads' = [threads EXCEPT ![p] =
                            [@ EXCEPT !.pc = "holding", !.trans = c, !.owns = Fields]]
    /\ clock' = clock + 1
    /\ UNCHANGED <<pool_size, db, nextVertex, nextAccount, secrets>>

\* an account call with its connection: its query, its return, and conn
\* going out of scope
account_call(p) ==
    /\ threads[p].pc = "got"
    /\ threads[p].op \in {"has_account", "delete_account"}
    /\ LET c == threads[p].conn
       IN  /\ IF threads[p].op = "has_account"
              THEN HasAccountQuery(c, threads[p].arg) /\ UNCHANGED db
              ELSE DeleteAccountQuery(c, threads[p].arg)
           /\ tx' = [tx EXCEPT ![c] = Idle]
    /\ threads' = [threads EXCEPT ![p] = [Ready EXCEPT !.gets = threads[p].gets]]
    /\ UNCHANGED <<pool_size, clock, nextVertex, nextAccount, secrets>>

\* a call of the thread on its transaction
thread_set_vertex(p, id, t) ==
    /\ threads[p].pc = "holding"
    /\ set_vertex(threads[p].conn, id, t)

\* the connection c after the COMMIT or ROLLBACK of the transaction on it:
\* still held, with no transaction
Finished(c) ==
    [tx EXCEPT ![c] = [Idle EXCEPT !.st = IF tx[c].st = "open" THEN "finished"
                                          ELSE tx[c].st]]

\* commit(self) up to try!(self.trans.commit()), which consumes trans
thread_commit(p) ==
    /\ threads[p].pc = "holding"
    /\ LET c == threads[p].trans
       IN  /\ db' = trans_commit(tx[c], set_commit(FALSE))
           /\ tx' = Finished(c)
    /\ threads' = [threads EXCEPT ![p] =
                     [@ EXCEPT !.pc = "dropping", !.op = "commit",
                               !.owns = SelectSeq(@, LAMBDA f : f # "trans")]]
    /\ UNCHANGED <<pool_size, clock, nextVertex, nextAccount, secrets, last>>

\* rollback(self) up to try!(self.trans.commit())
thread_rollback(p) ==
    /\ threads[p].pc = "holding"
    /\ LET c == threads[p].trans
       IN  /\ db' = trans_commit(tx[c], set_rollback(FALSE))
           /\ tx' = Finished(c)
    /\ threads' = [threads EXCEPT ![p] =
                     [@ EXCEPT !.pc = "dropping", !.op = "rollback",
                               !.owns = SelectSeq(@, LAMBDA f : f # "trans")]]
    /\ UNCHANGED <<pool_size, clock, nextVertex, nextAccount, secrets, last>>

\* the PostgresTransaction goes out of scope with all its fields
thread_drop(p) ==
    /\ threads[p].pc = "holding"
    /\ threads' = [threads EXCEPT ![p] = [@ EXCEPT !.pc = "dropping", !.op = "drop"]]
    /\ UNCHANGED <<pool_size, db, tx, clock, nextVertex, nextAccount, secrets, last>>

\* the next field of the value is dropped: trans with its flag unset sends
\* ROLLBACK, conn goes back to the pool; after the last one the call is over
drop_in_place(p) ==
    /\ threads[p].pc = "dropping"
    /\ threads[p].owns # <<>>
    /\ LET f == Head(threads[p].owns)
           rest == Tail(threads[p].owns)
           c == IF f = "trans" THEN threads[p].trans ELSE threads[p].conn
       IN  /\ IF f = "trans"
              THEN /\ db' = finish(tx[c], FALSE)
                   /\ tx' = Finished(c)
              ELSE /\ db' = db
                   /\ tx' = [tx EXCEPT ![c] = [@ EXCEPT !.st = "idle"]]
           /\ IF rest = <<>>
              THEN /\ threads' = [threads EXCEPT ![p] = [Ready EXCEPT !.gets = threads[p].gets]]
                   /\ last' = [op |-> threads[p].op, conn |-> c, args |-> <<>>, res |-> Ok(Unit)]
              ELSE /\ threads' = [threads EXCEPT ![p] =
                                    [@ EXCEPT !.owns = rest,
                                              !.conn = IF f = "conn" THEN 0 ELSE @,
                                              !.trans = IF f = "trans" THEN 0 ELSE @]]
                   /\ last' = last
    /\ UNCHANGED <<pool_size, clock, nextVertex, nextAccount, secrets>>

(***************************************************************************)
(* The calls, by family.                                                   *)
(***************************************************************************)
Begin == \E c \in Conns, a \in AccountIds : transaction(c, a)

End ==
    \/ \E c \in Conns : commit(c)
    \/ \E c \in Conns : rollback(c)
    \/ \E c \in Conns : drop(c)

VertexCalls ==
    \/ \E c \in Conns, id \in VertexIds : get_vertex(c, id)
    \/ \E c \in Conns, t \in Types : create_vertex(c, t)
    \/ \E c \in Conns, id \in VertexIds, t \in Types : set_vertex(c, id, t)
    \/ \E c \in Conns, id \in VertexIds : delete_vertex(c, id)

\* the edge calls on edges of the types T from the vertices O to the
\* vertices I, set with the weights W
EdgeCalls(O, T, I, W) ==
    \/ \E c \in Conns, o \in O, t \in T, i \in I : get_edge(c, o, t, i)
    \/ \E c \in Conns, o \in O, t \in T, i \in I, w \in W : set_edge(c, Edge(o, t, i, w))
    \/ \E c \in Conns, o \in O, t \in T, i \in I : delete_edge(c, o, t, i)
    \/ \E c \in Conns, o \in O, t \in T : get_edge_count(c, o, t)

\* the range queries on the edges of the types T that leave the vertices O
QueryCalls(O, T, OF, L, H) ==
    \/ \E c \in Conns, o \in O, t \in T, offset \in OF, limit \in L :
           get_edge_range(c, o, t, offset, limit)
    \/ \E c \in Conns, o \in O, t \in T, high \in H, low \in H, limit \in L :
           get_edge_time_range(c, o, t, high, low, limit)

\* the metadata calls on the edges E, the accounts A and the vertices V with
\* the key "k", and on the global keys G
MetadataCalls(G, A, V, E) ==
    \/ \E c \in Conns, e \in E : get_edge_metadata(c, e[1], e[2], e[3], "k")
    \/ \E c \in Conns, e \in E, v \in MetaValues :
           set_edge_metadata(c, e[1], e[2], e[3], "k", v)
    \/ \E c \in Conns, e \in E : delete_edge_metadata(c, e[1], e[2], e[3], "k")
    \/ \E c \in Conns, k \in G : get_global_metadata(c, k)
    \/ \E c \in Conns, k \in G, v \in MetaValues : set_global_metadata(c, k, v)
    \/ \E c \in Conns, k \in G : delete_global_metadata(c, k)
    \/ \E c \in Conns, a \in A : get_account_metadata(c, a, "k")
    \/ \E c \in Conns, a \in A, v \in MetaValues : set_account_metadata(c, a, "k", v)
    \/ \E c \in Conns, a \in A : delete_account_metadata(c, a, "k")
    \/ \E c \in Conns, id \in V : get_vertex_metadata(c, id, "k")
    \/ \E c \in Conns, id \in V, v \in MetaValues : set_vertex_metadata(c, id, "k", v)
    \/ \E c \in Conns, id \in V : delete_vertex_metadata(c, id, "k")

(***************************************************************************)
(* Spec: transactions on vertices.                                         *)
(***************************************************************************)
Next == Begin \/ End \/ VertexCalls

Spec == Init /\ [][Next]_vars

(***************************************************************************)
(* SpecEdges: transactions of the two accounts on the edges of one type,   *)
(* from each vertex (vertex 3 does not exist) to the vertices 2 and 3.     *)
(***************************************************************************)
NextEdges ==
    \/ \E c \in Conns, a \in {1, 2} : transaction(c, a)
    \/ \E c \in Conns : commit(c)
    \/ EdgeCalls(VertexIds, {"knows"}, {2, 3}, {-1, 1})

SpecEdges == InitVertices /\ [][NextEdges]_vars

(***************************************************************************)
(* SpecQueries: transactions that build edges and query them.              *)
(***************************************************************************)
NextQueries ==
    \/ \E c \in Conns : transaction(c, 1)
    \/ \E c \in Conns : commit(c)
    \/ \E c \in Conns, t \in EdgeTypes, i \in {1, 2} : set_edge(c, Edge(1, t, i, 1))
    \/ QueryCalls({1}, {"knows"}, Offsets, Limits, Times)

SpecQueries == InitGraph /\ [][NextQueries]_vars

(***************************************************************************)
(* SpecMetadata: a transaction on the metadata of the four scopes.          *)
(***************************************************************************)
NextMetadata ==
    \/ \E c \in Conns : transaction(c, 1)
    \/ MetadataCalls(MetaKeys, {1, 3}, VertexIds, {<<1, "knows", 2>>, <<2, "knows", 3>>})

SpecMetadata == InitGraph /\ [][NextMetadata]_vars

(***************************************************************************)
(* SpecValidation: a transaction of account 1 that is given arguments in   *)
(* and out of range, before and after a statement of it has failed.        *)
(***************************************************************************)
NextValidation ==
    \/ \E c \in Conns : transaction(c, 1)
    \/ \E c \in Conns : commit(c)
    \/ \E c \in Conns, i \in {1, 2}, w \in Weights : set_edge(c, Edge(1, "knows", i, w))
    \/ \E c \in Conns : set_vertex_metadata(c, 3, "k", "x")
    \/ QueryCalls({1}, {"knows"}, {-1, 0}, {-1, 1}, {None, Some(1)})

SpecValidation == InitGraph /\ [][NextValidation]_vars

(***************************************************************************)
(* SpecAccounts: the account calls on a pool of two connections.           *)
(***************************************************************************)
NextAccounts ==
    \/ \E c \in Conns, id \in AccountIds : has_account(c, id)
    \/ \E c \in Conns, email \in Emails : create_account(c, email)
    \/ \E c \in Conns, id \in AccountIds : delete_account(c, id)
    \/ \E c \in Conns, id \in AccountIds, s \in Secrets : auth(c, id, s)
    \/ \E c \in Conns : auth_results(c)

SpecAccounts == InitAccounts /\ [][NextAccounts]_vars

(***************************************************************************)
(* SpecPool: two threads on a pool of one connection.  SpecPoolFair is     *)
(* SpecPool with the steps that no thread can hold back taken in the end:  *)
(* the pool lends an idle connection to a thread that waits for one, the   *)
(* timeout passes, a call that has its connection runs on, and a value     *)
(* that goes out of scope is dropped to its last field (ThreadRuns).  How long a thread *)
(* keeps its transaction is up to the thread.                              *)
(***************************************************************************)
InitPool == InitOn(1, TwoAccounts \cup TwoVertices, 2, 2, TwoSecrets)

NextPool ==
    \/ \E p \in Threads : pool_get(p, "transaction", 1)
    \/ \E p \in Threads : pool_get(p, "has_account", 1)
    \/ \E p \in Threads : pool_get(p, "delete_account", 3)
    \/ \E p \in Threads, c \in Conns : pool_lend(p, c)
    \/ \E p \in Threads : pool_tick(p)
    \/ \E p \in Threads : get_timeout(p)
    \/ \E p \in Threads : new_transaction(p)
    \/ \E p \in Threads : account_call(p)
    \/ \E p \in Threads : thread_set_vertex(p, 1, "place")
    \/ \E p \in Threads : thread_commit(p)
    \/ \E p \in Threads : thread_rollback(p)
    \/ \E p \in Threads : thread_drop(p)
    \/ \E p \in Threads : drop_in_place(p)

SpecPool == InitPool /\ [][NextPool]_vars

\* the steps of the thread p that are not the thread's to hold back
ThreadRuns(p) ==
    \/ \E c \in Conns : pool_lend(p, c)
    \/ pool_tick(p)
    \/ get_timeout(p)
    \/ new_transaction(p)
    \/ account_call(p)
    \/ drop_in_place(p)

SpecPoolFair ==
    /\ InitPool
    /\ [][NextPool]_vars
    /\ \A p \in Threads : WF_vars(ThreadRuns(p))

(***************************************************************************)
(* SpecOwnership: transactions of the two accounts that change and delete  *)
(* the vertices 1 (of account 1), 2 (of account 2) and 3 (not there) and   *)
(* the edges that leave them.                                              *)
(***************************************************************************)
NextOwnership ==
    \/ \E c \in Conns, a \in {1, 2} : transaction(c, a)
    \/ \E c \in Conns : commit(c)
    \/ \E c \in Conns, id \in VertexIds : set_vertex(c, id, "place")
    \/ \E c \in Conns, id \in VertexIds : delete_vertex(c, id)
    \/ \E c \in Conns, o \in VertexIds, w \in {1, 2} : set_edge(c, Edge(o, "knows", 2, w))
    \/ \E c \in Conns, o \in VertexIds : delete_edge(c, o, "knows", 2)

SpecOwnership == InitGraph /\ [][NextOwnership]_vars

(***************************************************************************)
(* SpecSavepoints: two connections; transactions of account 1 set the edge *)
(* from its vertex to vertex 2 and to the missing vertex 3, read it, and   *)
(* end in each of the three ways.                                          *)
(***************************************************************************)
InitSavepoints == InitOn(2, TwoAccounts \cup TwoVertices, 2, 2, TwoSecrets)

NextSavepoints ==
    \/ \E c \in Conns : transaction(c, 1)
    \/ \E c \in Conns : commit(c)
    \/ \E c \in Conns : rollback(c)
    \/ \E c \in Conns : drop(c)
    \/ \E c \in Conns, i \in {2, 3} : set_edge(c, Edge(1, "knows", i, 1))
    \/ \E c \in Conns : get_edge(c, 1, "knows", 2)

SpecSavepoints == InitSavepoints /\ [][NextSavepoints]_vars

(***************************************************************************)
(* SpecNew: the datastore is built, with and without a pool size, on hosts *)
(* of few and of many processing units.                                    *)
(***************************************************************************)
NextNew == new

SpecNew == InitNew /\ [][NextNew]_vars

(***************************************************************************)
(* The properties.  What a call must return is stated for a transaction    *)
(* the backend has not failed: in a failed one every statement is refused. *)
(***************************************************************************)
\* the vertex rows with the id given among the rows V, and those of them
\* that the account owns
VertexRows(V, id) == {r \in V : r[1] = "vertices" /\ r[2] = <<id>>}
VertexRowsOf(V, id, account_id) == {r \in VertexRows(V, id) : r[3].owner_id = account_id}
EdgeRows(V, o, t, i) == {r \in V : r[1] = "edges" /\ r[2] = <<o, t, i>>}
InRange(w) == -1 <= w /\ w <= 1

\* the step is the call op on the transaction of connection c, with the
\* arguments last'.args and the result last'.res
Calls(c, op) == last'.op = op /\ last'.conn = c /\ tx'[c].calls = tx[c].calls + 1
\* the step ends the transaction of connection c by op
Ends(c, op) == last'.op = op /\ last'.conn = c /\ IsOpen(c) /\ tx'[c].st = "idle"

\* C1: in a transaction the backend has not failed, set_edge with a weight
\* in range whose outbound vertex is missing or another account's, or whose
\* inbound vertex is missing, returns VertexDoesNotExist, changes no row the
\* transaction sees (its own earlier writes included) and no committed row,
\* and leaves the transaction usable: not failed, so that its later calls
\* are served and its commit persists what it sees.
C1_SetEdgeFailureIsIsolated ==
    [][\A c \in Conns :
         /\ (Calls(c, "set_edge") /\ ~tx[c].failed)
            => LET e == last'.args[1]
               IN  (/\ InRange(e.weight)
                    /\ \/ VertexRowsOf(View(c), e.outbound_id, tx[c].acct) = {}
                       \/ VertexRows(View(c), e.inbound_id) = {})
                   => /\ last'.res = Err("VertexDoesNotExist")
                      /\ View(c)' = View(c)
                      /\ tx'[c].rows = tx[c].rows
                      /\ db' = db
                      /\ ~tx'[c].failed
         /\ (Ends(c, "commit") /\ ~tx[c].failed) => db' = View(c)
      ]_vars

\* C1 happens: set_edge has just failed with VertexDoesNotExist in a
\* transaction that had written an edge before, and the transaction is usable
C1_Witness ==
    /\ last.op = "set_edge"
    /\ last.res = Err("VertexDoesNotExist")
    /\ tx[last.conn].st = "open"
    /\ tx[last.conn].rows # {}
    /\ ~tx[last.conn].failed

\* C2: rollback() discards every change made on the transaction: the
\* committed rows, which every later transaction sees, are after rollback()
\* what they were before it (and so what they were when the transaction
\* began, no one else having committed meanwhile).
C2_RollbackDiscards ==
    [][\A c \in Conns : Ends(c, "rollback") => db' = db]_vars

\* C3: the committed rows change only by a commit(): a transaction that is
\* never committed contributes no change.
C3_OnlyCommitPersists ==
    [][db' # db => last'.op = "commit"]_vars

\* every row there is: the committed ones and those the open transactions
\* have written
AllRows == db \cup UNION {tx[c].rows : c \in Conns}

\* C4: ownership isolation.  A vertex belongs to the account whose
\* transaction created it, for good; in a transaction (not failed) of
\* another account, set_vertex and delete_vertex on it return
\* VertexDoesNotExist and leave its row (existence, type, owner) as it was,
\* in what the transaction sees and in what is committed.
C4_OwnershipIsolation ==
    [][/\ \A c \in Conns :
            /\ (Calls(c, "create_vertex") /\ IsOk(last'.res))
               => \A r \in VertexRows(View(c)', last'.res[2]) : r[3].owner_id = tx[c].acct
            /\ ((Calls(c, "set_vertex") \/ Calls(c, "delete_vertex")) /\ ~tx[c].failed)
               => LET id == last'.args[1]
                      V == VertexRows(View(c), id)
                  IN  (V # {} /\ \A r \in V : r[3].owner_id # tx[c].acct)
                      => /\ last'.res = Err("VertexDoesNotExist")
                         /\ VertexRows(View(c)', id) = V
                         /\ VertexRows(db', id) = VertexRows(db, id)
       /\ \A r \in AllRows, q \in AllRows' :
            (r[1] = "vertices" /\ q[1] = "vertices" /\ r[2] = q[2])
            => r[3].owner_id = q[3].owner_id
      ]_vars

\* C4 happens: in a second call, delete_vertex has just failed with
\* VertexDoesNotExist on a vertex that another account created
C4_Witness ==
    /\ last.op = "delete_vertex"
    /\ last.res = Err("VertexDoesNotExist")
    /\ tx[last.conn].st = "open"
    /\ tx[last.conn].calls = 2
    /\ ~tx[last.conn].failed
    /\ \E r \in VertexRows(View(last.conn), last.args[1]) :
          r[3].owner_id # tx[last.conn].acct

\* the call on connection c was refused with the error e before any
\* statement: nothing committed and nothing of the transaction has changed
Refused(c, e) ==
    /\ last'.res = Err(e)
    /\ db' = db
    /\ tx'[c].failed = tx[c].failed
    /\ tx'[c].hidden = tx[c].hidden
    /\ tx'[c].rows = tx[c].rows
    /\ tx'[c].shares = tx[c].shares

\* C5: validation comes before any backend statement.  set_edge with a
\* weight below -1 or above 1 returns WeightOutOfRange, get_edge_range with
\* an offset below 0 OffsetOutOfRange and (the offset being in range) with a
\* limit below 0 LimitOutOfRange, get_edge_time_range with a limit below 0
\* LimitOutOfRange; each in any transaction, a failed one included, and each
\* leaves the committed rows and the transaction (its writes, its being
\* usable) as they were.
C5_ValidationBeforeBackend ==
    [][\A c \in Conns :
         /\ (Calls(c, "set_edge") /\ ~InRange(last'.args[1].weight))
            => Refused(c, "WeightOutOfRange")
         /\ (Calls(c, "get_edge_range") /\ last'.args[3] < 0)
            => Refused(c, "OffsetOutOfRange")
         /\ (Calls(c, "get_edge_range") /\ last'.args[3] >= 0 /\ last'.args[4] < 0)
            => Refused(c, "LimitOutOfRange")
         /\ (Calls(c, "get_edge_time_range") /\ last'.args[5] < 0)
            => Refused(c, "LimitOutOfRange")
      ]_vars

\* C5 happens: set_edge with the weight 2 was refused in a transaction that
\* had written an edge before and is still usable
C5_Witness ==
    /\ last.op = "set_edge"
    /\ last.args[1].weight = 2
    /\ last.res = Err("WeightOutOfRange")
    /\ tx[last.conn].st = "open"
    /\ tx[last.conn].rows # {}
    /\ ~tx[last.conn].failed

UniqueEdgeKeys(V) ==
    \A r \in V, q \in V : (r[1] = "edges" /\ q[1] = "edges" /\ r[2] = q[2]) => r = q
EdgeCount(V, o, t) ==
    Cardinality({r \in V : r[1] = "edges" /\ r[2][1] = o /\ r[2][2] = t})
Besides(V, k) == {r \in V : Key(r) # k}

\* C6: the edge key stays unique and the upsert is idempotent.  There is at
\* most one edge row per (outbound_id, type, inbound_id), committed and in
\* what any transaction sees; and set_edge by the owner of the outbound
\* vertex on an edge that is there with the same weight succeeds, leaves
\* exactly one row of that key with that weight and with the update_date
\* NOW() of the transaction (never earlier than the one it replaces), leaves
\* the count of the edges of that vertex and type as it was, and touches no
\* other row.
C6_EdgeUpsertIdempotent ==
    /\ UniqueEdgeKeys(db)
    /\ [][/\ UniqueEdgeKeys(db')
          /\ \A c \in Conns :
               /\ UniqueEdgeKeys(View(c)')
               /\ (Calls(c, "set_edge") /\ ~tx[c].failed)
                  => LET e == last'.args[1]
                         k == <<"edges", <<e.outbound_id, e.t, e.inbound_id>>>>
                         old == EdgeRows(View(c), e.outbound_id, e.t, e.inbound_id)
                     IN  (/\ VertexRowsOf(View(c), e.outbound_id, tx[c].acct) # {}
                          /\ \E r \in old : r[3].weight = e.weight)
                         => /\ last'.res = Ok(Unit)
                            /\ EdgeRows(View(c)', e.outbound_id, e.t, e.inbound_id)
                                 = {<<"edges", k[2], [weight |-> e.weight,
                                                      update_date |-> tx[c].now]>>}
                            /\ \A r \in old : r[3].update_date <= tx[c].now
                            /\ EdgeCount(View(c)', e.outbound_id, e.t)
                                 = EdgeCount(View(c), e.outbound_id, e.t)
                            /\ Besides(View(c)', k) = Besides(View(c), k)
         ]_vars

\* C6 happens: set_edge has just succeeded on an edge that an earlier
\* transaction had set with the same weight and committed at an earlier date
C6_Witness ==
    /\ last.op = "set_edge"
    /\ last.res = Ok(Unit)
    /\ tx[last.conn].st = "open"
    /\ LET e == last.args[1]
       IN  /\ \E r \in EdgeRows(db, e.outbound_id, e.t, e.inbound_id) :
                 r[3].weight = e.weight /\ r[3].update_date < tx[last.conn].now
           /\ \E r \in EdgeRows(tx[last.conn].rows, e.outbound_id, e.t, e.inbound_id) :
                 r[3].update_date = tx[last.conn].now

\* C7: the vertex round trip.  In a transaction not failed whose account
\* exists, create_vertex(t) returns an id that no vertex row has, and the
\* transaction then sees the vertex with the type t; get_vertex(X) returns
\* the vertex X with its type when the transaction sees one and
\* VertexDoesNotExist when it sees none; delete_vertex(X) succeeds only for
\* the owner and the transaction then sees no vertex X.
C7_VertexRoundTrip ==
    [][\A c \in Conns :
         /\ (Calls(c, "create_vertex") /\ ~tx[c].failed
               /\ \E r \in View(c) : r[1] = "accounts" /\ r[2] = <<tx[c].acct>>)
            => /\ IsOk(last'.res)
               /\ VertexRows(AllRows, last'.res[2]) = {}
               /\ \E r \in VertexRows(View(c)', last'.res[2]) : r[3].type = last'.args[1]
               /\ Cardinality(VertexRows(View(c)', last'.res[2])) = 1
         /\ (Calls(c, "get_vertex") /\ ~tx[c].failed)
            => LET V == VertexRows(View(c), last'.args[1])
               IN  IF V = {} THEN last'.res = Err("VertexDoesNotExist")
                   ELSE \E r \in V : last'.res = Ok([id |-> last'.args[1], t |-> r[3].type])
         /\ (Calls(c, "delete_vertex") /\ IsOk(last'.res))
            => /\ VertexRowsOf(View(c), last'.args[1], tx[c].acct) # {}
               /\ VertexRows(View(c)', last'.args[1]) = {}
      ]_vars

\* C7 happens: get_vertex has just returned VertexDoesNotExist for a vertex
\* that an earlier transaction created and this one has deleted
C7_Witness ==
    /\ last.op = "get_vertex"
    /\ last.res = Err("VertexDoesNotExist")
    /\ tx[last.conn].st = "open"
    /\ <<"vertices", <<last.args[1]>>>> \in tx[last.conn].hidden
    /\ VertexRows(db, last.args[1]) # {}

MetadataGets ==
    {"get_global_metadata", "get_account_metadata", "get_vertex_metadata",
     "get_edge_metadata"}
MetadataSets ==
    {"set_global_metadata", "set_account_metadata", "set_vertex_metadata",
     "set_edge_metadata"}
MetadataDeletes ==
    {"delete_global_metadata", "delete_account_metadata", "delete_vertex_metadata",
     "delete_edge_metadata"}
\* the records of the scope, owner and key k among the rows V
MetaRows(V, k) == {r \in V : r[1] = k[1] /\ r[2] = k[2]}

\* C8: the metadata round trip, the same in the four scopes; k is the scope,
\* owner and key of the call.  A set that succeeds leaves exactly the record
\* (k, v); a get returns the value of the record of k and
\* MetadataDoesNotExist when there is none; a delete of a record that is
\* there succeeds and leaves none, a delete of none returns
\* MetadataDoesNotExist; and none of them changes a row of another scope,
\* owner or key.
C8_MetadataRoundTrip ==
    [][\A c \in Conns :
         /\ (last'.op \in MetadataSets /\ Calls(c, last'.op) /\ IsOk(last'.res))
            => LET k == last'.args[1]
               IN  /\ MetaRows(View(c)', k) = {<<k[1], k[2], last'.args[2]>>}
                   /\ Besides(View(c)', k) = Besides(View(c), k)
         /\ (last'.op \in MetadataGets /\ Calls(c, last'.op) /\ ~tx[c].failed)
            => LET R == MetaRows(View(c), last'.args[1])
               IN  /\ IF R = {} THEN last'.res = Err("MetadataDoesNotExist")
                       ELSE \E r \in R : last'.res = Ok(r[3])
                   /\ View(c)' = View(c)
         /\ (last'.op \in MetadataDeletes /\ Calls(c, last'.op) /\ ~tx[c].failed)
            => LET k == last'.args[1]
               IN  /\ last'.res = IF MetaRows(View(c), k) = {}
                                  THEN Err("MetadataDoesNotExist") ELSE Ok(Unit)
                   /\ MetaRows(View(c)', k) = {}
                   /\ Besides(View(c)', k) = Besides(View(c), k)
      ]_vars

\* C8 happens: get_global_metadata has just returned "y" for the key whose
\* committed value is "x": a set in this transaction has replaced it
C8_Witness ==
    /\ last.op = "get_global_metadata"
    /\ last.args = <<GlobalMetaKey("l")>>
    /\ last.res = Ok("y")
    /\ <<"global_metadata", <<"l">>, "x">> \in db

\* C9: a set of metadata, in any scope and for any owner, in a transaction
\* not failed, returns success or MetadataDoesNotExist and leaves the
\* transaction usable.
C9_SetMetadataTwoOutcomes ==
    [][\A c \in Conns :
         (last'.op \in MetadataSets /\ Calls(c, last'.op) /\ ~tx[c].failed)
         => /\ last'.res \in {Ok(Unit), Err("MetadataDoesNotExist")}
            /\ ~tx'[c].failed
      ]_vars

\* the step is auth returning on connection c: after its second query, or
\* at once when the first found no row
AuthReturns(c) ==
    /\ last'.op = "auth"
    /\ last'.conn = c
    /\ \/ tx[c].st = "auth" /\ tx'[c].st = "idle"
       \/ tx' = tx /\ last' # last

\* C10: authentication.  create_account returns a new id with the secret S
\* of the account; auth(id, s) returns Ok(true) when the account id is there
\* and s is its S, and Ok(false) otherwise: for another secret, and for an id
\* whose account was never created or is deleted; and auth changes no row.
C10_Auth ==
    [][\A c \in Conns :
         /\ (last'.op = "create_account" /\ last'.conn = c /\ db' # db)
            => LET id == last'.res[2][1]
               IN  /\ IsOk(last'.res)
                   /\ id \notin DOMAIN secrets
                   /\ \A r \in db : ~(r[1] = "accounts" /\ r[2] = <<id>>)
                   /\ \E r \in db' : r[1] = "accounts" /\ r[2] = <<id>>
                   /\ secrets'[id] = last'.res[2][2]
         /\ AuthReturns(c)
            => LET id == last'.args[1]
                   there == \E r \in db : r[1] = "accounts" /\ r[2] = <<id>>
               IN  /\ last'.res = Ok(there /\ id \in DOMAIN secrets
                                           /\ secrets[id] = last'.args[2])
                   /\ db' = db
      ]_vars

\* C10 happens: auth has just returned true for the account 3, which
\* create_account made, with the secret it returned
C10_Witness ==
    /\ last.op = "auth"
    /\ last.args[1] = 3
    /\ last.res = Ok(TRUE)
    /\ 3 \in DOMAIN secrets
    /\ last.args[2] = secrets[3]

\* the account rows among the rows V, and whether the account id is there
Accounts(V) == {r \in V : r[1] = "accounts"}
HasAccount(V, id) == \E r \in Accounts(V) : r[2] = <<id>>
\* the step is the account call op returning on connection c
AccountCall(c, op) ==
    last'.op = op /\ last'.conn = c /\ tx' = tx /\ (last' # last \/ db' # db)

\* C11: delete_account(id) returns Ok exactly when an account id is there
\* and then leaves no account id and every other account as it was (so that
\* has_account(id) is false and a second delete_account(id) fails); when no
\* account id is there it returns AccountNotFound and changes no account;
\* has_account(id) returns whether the account id is there and changes no
\* row.
C11_DeleteAccount ==
    [][\A c \in Conns :
         /\ AccountCall(c, "delete_account")
            => LET id == last'.args[1]
               IN  /\ last'.res = IF HasAccount(db, id) THEN Ok(Unit)
                                  ELSE Err("AccountNotFound")
                   /\ ~HasAccount(db', id)
                   /\ Accounts(db') = {r \in Accounts(db) : r[2] # <<id>>}
                   /\ ~HasAccount(db, id) => db' = db
         /\ AccountCall(c, "has_account")
            => /\ last'.res = Ok(HasAccount(db, last'.args[1]))
               /\ db' = db
      ]_vars

\* C11 happens: a second delete_account of the account 3, which
\* create_account made and a first delete_account removed, has just failed
C11_Witness ==
    /\ last.op = "delete_account"
    /\ last.args = <<3>>
    /\ last.res = Err("AccountNotFound")
    /\ 3 \in DOMAIN secrets
    /\ ~HasAccount(db, 3)

\* the edge rows among the rows V
Edges(V) == {r \in V : r[1] = "edges"}

\* C12: in a transaction (not failed) of the account A, delete_edge(o, t, i)
\* returns Ok exactly when the transaction sees the edge and sees the vertex
\* o as one of A; it then sees that edge no more and every other edge as
\* before.  Otherwise (no such edge, no vertex o, or a vertex o of another
\* account) it returns EdgeDoesNotExist and no edge row is removed or
\* changed, seen or committed.
C12_DeleteEdge ==
    [][\A c \in Conns :
         (Calls(c, "delete_edge") /\ ~tx[c].failed)
         => LET o == last'.args[1]
                t == last'.args[2]
                i == last'.args[3]
            IN  /\ db' = db
                /\ IF EdgeRows(View(c), o, t, i) # {}
                      /\ VertexRowsOf(View(c), o, tx[c].acct) # {}
                   THEN /\ last'.res = Ok(Unit)
                        /\ Edges(View(c)') = Edges(View(c)) \ EdgeRows(View(c), o, t, i)
                   ELSE /\ last'.res = Err("EdgeDoesNotExist")
                        /\ Edges(View(c)') = Edges(View(c))
      ]_vars

\* C12 happens: delete_edge has just returned EdgeDoesNotExist for an edge
\* that is there, leaving a vertex of another account
C12_Witness ==
    /\ last.op = "delete_edge"
    /\ last.res = Err("EdgeDoesNotExist")
    /\ tx[last.conn].st = "open"
    /\ ~tx[last.conn].failed
    /\ EdgeRows(View(last.conn), last.args[1], last.args[2], last.args[3]) # {}
    /\ VertexRows(View(last.conn), last.args[1]) # {}
    /\ VertexRowsOf(View(last.conn), last.args[1], tx[last.conn].acct) = {}

Min(a, b) == IF a < b THEN a ELSE b
\* the edge rows of V that leave the vertex o with the type t and whose
\* update_date is within the bounds that are given
EdgesWithin(V, o, t, high, low) ==
    {r \in Edges(V) : /\ r[2][1] = o /\ r[2][2] = t
                      /\ (high = <<>> \/ r[3].update_date <= high[1])
                      /\ (low = <<>> \/ r[3].update_date >= low[1])}
\* the sequence es of edges is the rows of R, each once, latest first
IsLatestFirst(es, R, o, t) ==
    \E f \in [1 .. Len(es) -> R] :
       /\ \A m \in 1 .. Len(es), n \in 1 .. Len(es) :
             /\ (m # n) => f[m] # f[n]
             /\ (m < n) => f[m][3].update_date >= f[n][3].update_date
       /\ \A n \in 1 .. Len(es) :
             es[n] = [outbound_id |-> o, t |-> t, inbound_id |-> f[n][2][3],
                      weight |-> f[n][3].weight]
       /\ \A r \in R : (\A n \in 1 .. Len(es) : f[n] # r)
                       => \A n \in 1 .. Len(es) : r[3].update_date <= f[n][3].update_date

\* C13: in a transaction not failed and for a limit of 0 or more,
\* get_edge_time_range(o, t, high, low, limit) returns the first limit edges
\* (all of them when there are fewer), latest update_date first, of the
\* edges that leave o with the type t and whose update_date is at most high
\* when high is given and at least low when low is given: each returned
\* edge is one of them, none comes twice, and none left out is later than
\* one returned; and the call changes no row.
C13_EdgeTimeRange ==
    [][\A c \in Conns :
         (Calls(c, "get_edge_time_range") /\ ~tx[c].failed /\ last'.args[5] >= 0)
         => LET o == last'.args[1]
                t == last'.args[2]
                R == EdgesWithin(View(c), o, t, last'.args[3], last'.args[4])
            IN  /\ IsOk(last'.res)
                /\ Len(last'.res[2]) = Min(last'.args[5], Cardinality(R))
                /\ IsLatestFirst(last'.res[2], R, o, t)
                /\ db' = db
                /\ View(c)' = View(c)
      ]_vars

\* C13 happens: with an upper bound given and the limit 1,
\* get_edge_time_range has just returned the later of two edges within the
\* bound that have different dates
C13_Witness ==
    /\ last.op = "get_edge_time_range"
    /\ IsOk(last.res)
    /\ last.args[3] # <<>>
    /\ last.args[5] = 1
    /\ Len(last.res[2]) = 1
    /\ tx[last.conn].st = "open"
    /\ LET R == EdgesWithin(View(last.conn), last.args[1], last.args[2],
                            last.args[3], last.args[4])
       IN  /\ Cardinality(R) = 2
           /\ \E r \in R, q \in R : r[3].update_date < q[3].update_date
           /\ \E r \in Edges(View(last.conn)) : r \notin R /\ r[2][1] = last.args[1]

\* the threads that hold the connection c
Holders(c) == {p \in Threads : threads[p].conn = c}

\* no connection has two holders, no more are held than the pool has, the
\* pool has the ones no thread holds, and a transaction has its own
HeldByOne ==
    /\ \A c \in Conns : Cardinality(Holders(c)) <= 1
    /\ Cardinality({p \in Threads : threads[p].conn # 0}) <= pool_size
    /\ \A c \in Conns : PoolGet(c) <=> Holders(c) = {}
    /\ \A p \in Threads :
          threads[p].pc = "holding"
          => /\ threads[p].conn \in Conns
             /\ threads[p].trans = threads[p].conn
             /\ IsOpen(threads[p].conn)
             /\ tx[threads[p].conn].acct = threads[p].arg

\* C14: in every state no connection is held by two threads at once, the connections held
\* are never more than the pool's size, a connection is in the pool exactly
\* when no thread holds it, and a thread with a transaction holds the
\* connection of that transaction, which is open and bound to the account
\* it was asked for; and while a thread holds a connection no step gives
\* the connection to another thread, the thread gives it up only at the end
\* of its account call or of the drop of its transaction, and the
\* connection's state changes only in steps of that thread.
C14_ExclusiveConnections ==
    /\ []HeldByOne
    /\ [][\A p \in Threads :
            threads[p].conn # 0
            => LET c == threads[p].conn
               IN  /\ \A q \in Threads \ {p} : threads'[q].conn # c
                   /\ threads'[p].conn # c
                      => /\ threads'[p].conn = 0
                         /\ threads[p].pc \in {"got", "dropping"}
                         /\ tx'[c].st = "idle"
                   /\ tx'[c] # tx[c]
                      => \/ threads'[p] # threads[p]
                         \/ threads[p].pc = "holding" /\ last'.conn = c
                            /\ last'.op = "set_vertex"
      ]_vars

\* C14 happens: a thread holds the only connection with a transaction that
\* has written a row, while the other thread has waited for a connection
C14_Witness ==
    \E p \in Threads, q \in Threads :
       /\ threads[p].pc = "holding"
       /\ tx[threads[p].conn].rows # {}
       /\ threads[q].pc = "waiting"
       /\ threads[q].waited > 0
       /\ Cardinality({r \in Threads : threads[r].conn # 0}) = pool_size

AccountOps == {"has_account", "delete_account"}

TwiceCappedAt1024(cpus) == IF cpus >= 512 THEN 1024 ELSE 2 * cpus

\* C16: the datastore that new(pool_size, ..) has built on a host of cpus
\* processing units (1 or more) has a pool of min(2 * cpus, 1024)
\* connections when no pool size was given, and of the size given when one
\* was, whatever cpus is.
C16_PoolSize ==
    (last.op = "new" /\ Len(last.args) = 2)
    => LET pool_size_arg == last.args[1]
           cpus == last.args[2]
       IN  /\ cpus >= 1
           /\ pool_size = IF pool_size_arg = <<>> THEN TwiceCappedAt1024(cpus)
                          ELSE pool_size_arg[1]
           /\ DOMAIN tx = 1 .. pool_size

\* C16 happens: new without a pool size has built a pool of 1024 connections
\* on a host of more than 512 processing units
C16_Witness ==
    /\ last.op = "new"
    /\ Len(last.args) = 2
    /\ last.args[1] = <<>>
    /\ last.args[2] > 512
    /\ pool_size = 1024

Mutations == {"set_vertex", "delete_vertex", "set_edge", "delete_edge"}

\* the vertex a mutation is about: the vertex itself or the outbound vertex
\* of the edge
MutatedVertex(op, args) == IF op = "set_edge" THEN args[1].outbound_id ELSE args[1]

\* what a mutation returns that is refused for its vertex
NoSuchVertex(op) ==
    IF op = "delete_edge" THEN Err("EdgeDoesNotExist") ELSE Err("VertexDoesNotExist")

\* C17: a mutation (set_vertex, delete_vertex, set_edge, delete_edge) in a
\* transaction not failed, with arguments in range, on a vertex that the
\* transaction's account does not own returns one and the same error, and
\* leaves the transaction and the rows as they were, whether the vertex is
\* missing or is there and owned by another account: the error depends on
\* the call alone.
C17_MissingOrNotOwned ==
    [][\A c \in Conns, op \in Mutations :
         (/\ Calls(c, op)
          /\ ~tx[c].failed
          /\ op = "set_edge" => InRange(last'.args[1].weight)
          /\ VertexRowsOf(View(c), MutatedVertex(op, last'.args), tx[c].acct) = {})
         => /\ last'.res = NoSuchVertex(op)
            /\ tx'[c] = [tx[c] EXCEPT !.calls = @ + 1]
            /\ db' = db
      ]_vars

\* C17 happens: delete_edge has just returned EdgeDoesNotExist for an edge
\* that is there and leaves a vertex of another account, in a transaction
\* that sees no vertex 3 either
C17_Witness ==
    /\ last.op = "delete_edge"
    /\ last.res = Err("EdgeDoesNotExist")
    /\ IsOpen(last.conn)
    /\ LET V == View(last.conn)
           o == last.args[1]
       IN  /\ EdgeRows(V, o, last.args[2], last.args[3]) # {}
           /\ VertexRows(V, o) # {}
           /\ VertexRowsOf(V, o, tx[last.conn].acct) = {}
           /\ VertexRows(V, 3) = {}

Vertices(V) == {r \in V : r[1] = "vertices"}

C19_SavepointNested ==
    [][\A c \in Conns :
         /\ (Calls(c, "set_edge") /\ ~tx[c].failed /\ InRange(last'.args[1].weight))
            => LET e == last'.args[1]
               IN  /\ db' = db
                   /\ \A d \in Conns \ {c} : tx'[d] = tx[d] /\ View(d)' = View(d)
                   /\ ~tx'[c].failed
                   /\ IF IsErr(last'.res)
                      THEN tx'[c] = [tx[c] EXCEPT !.calls = @ + 1]
                      ELSE /\ \E r \in EdgeRows(View(c)', e.outbound_id, e.t, e.inbound_id) :
                                r[3].weight = e.weight
                           /\ \A d \in Conns \ {c} :
                                IsOpen(d) => EdgeRows(View(d)', e.outbound_id, e.t, e.inbound_id)
                                               = EdgeRows(db, e.outbound_id, e.t, e.inbound_id)
         /\ (Ends(c, "commit") /\ ~tx[c].failed) => db' = View(c)
         /\ Ends(c, "rollback") => db' = db
         /\ Ends(c, "drop") => db' = db
      ]_vars

\* C20: a connection in the pool has no transaction and no rows of one; the
\* step that puts the connection of a PostgresTransaction back into the
\* pool, after commit(), after rollback() and after a drop alike, finds the
\* backend transaction finished by an earlier step and trans gone from the
\* value; and the connection the pool lends is one without a transaction.
C20_FinishedBeforeReleased ==
    /\ [](\A c \in Conns : PoolGet(c) => tx[c] = Idle)
    /\ [][\A p \in Threads :
            /\ (threads[p].pc = "dropping" /\ threads[p].conn # 0
                /\ tx'[threads[p].conn].st = "idle")
               => /\ tx[threads[p].conn].st = "finished"
                  /\ threads[p].trans = 0 \/ threads[p].owns = <<"conn">>
                  /\ tx'[threads[p].conn] = Idle
                  /\ db' = db
                  /\ last'.op \in {"commit", "rollback", "drop"}
            /\ (threads[p].pc = "waiting" /\ threads'[p].pc = "got")
               => /\ tx[threads'[p].conn] = Idle
                  /\ tx'[threads'[p].conn] = [Idle EXCEPT !.st = "lent"]
      ]_vars

\* C20 happens: a dropped PostgresTransaction that had written a row has
\* lost trans, its backend transaction is finished, and it still holds the
\* connection another thread waits for
C20_Witness ==
    \E p \in Threads, q \in Threads :
       /\ threads[p].pc = "dropping"
       /\ threads[p].op = "drop"
       /\ threads[p].owns = <<"conn">>
       /\ tx[threads[p].conn].st = "finished"
       /\ threads[q].pc = "waiting"
       /\ last.op = "set_vertex"
       /\ IsOk(last.res)
====
